---- MODULE Spec2Model ----
(***************************************************************************)
(* Model of NS3/dumbbell-topology.cpp: the post-processing of the flow     *)
(* monitor's records (ProcessFlowMonitorResults), the statistics           *)
(* (CalculateStats), the CSV report (WriteResultsCsv) and the tail of      *)
(* main that calls them.                                                   *)
(*                                                                         *)
(* Numbers.  ns-3 keeps a Time as an integer count of ticks; the model     *)
(* counts microseconds.  A double is modelled by the exact rational it     *)
(* stands for, <<numerator, denominator>> in lowest terms; a standard      *)
(* deviation is the exact square root of a rational, kept as its radicand. *)
(* operator<< on a double is modelled by FormatDouble / FormatSqrt, which  *)
(* produce the digits of the default (precision 6, %g) notation.           *)
(***************************************************************************)
EXTENDS Integers, Sequences, FiniteSets, TLC

VARIABLES pc, flow, nFlows, expData, dataIdx, csvFile, cout

vars == <<pc, flow, nFlows, expData, dataIdx, csvFile, cout>>

(***************************************************************************)
(* Bounds of the model.                                                    *)
(***************************************************************************)
\* flow records iterated by ProcessFlowMonitorResults under Spec
MaxFlows == 4
\* flow records iterated under SpecClassify (all record kinds)
MaxClassifyFlows == 2

(***************************************************************************)
(* Exact arithmetic on the values the doubles stand for.                   *)
(***************************************************************************)
Abs(x) == IF x < 0 THEN -x ELSE x

RECURSIVE Gcd(_, _)
Gcd(a, b) == IF b = 0 THEN a ELSE Gcd(b, a % b)

Rat(n, d) == LET g == Gcd(Abs(n), Abs(d)) IN <<n \div g, d \div g>>

RatAdd(a, b) == Rat(a[1] * b[2] + b[1] * a[2], a[2] * b[2])
RatSub(a, b) == Rat(a[1] * b[2] - b[1] * a[2], a[2] * b[2])
RatMul(a, b) == Rat(a[1] * b[1], a[2] * b[2])
RatDivInt(a, k) == Rat(a[1], a[2] * k)

Zero == <<0, 1>>

RECURSIVE RatSum(_)
RatSum(s) == IF s = <<>> THEN Zero ELSE RatAdd(s[1], RatSum(Tail(s)))

Min(a, b) == IF a < b THEN a ELSE b

(***************************************************************************)
(* main: the experiment schedule (lines 330-341), in microseconds.         *)
(***************************************************************************)
Second == 1000000
NumExperiments == 5
\* double timeOffset = 1.0
timeOffset == 1 * Second
\* expEnd = expStart + 30
ExpDuration == 30 * Second
\* expStart = expEnd + 1
ExpGap == 1 * Second

RECURSIVE ExpStartOf(_)
ExpStartOf(i) == IF i = 0 THEN timeOffset
                 ELSE ExpStartOf(i - 1) + ExpDuration + ExpGap

\* expTimings[i] = make_pair(expStart, expEnd), i = 0..4
expTimings == [i \in 0..(NumExperiments - 1) |->
                 [first |-> ExpStartOf(i), second |-> ExpStartOf(i) + ExpDuration]]

\* lines 363-375: SetupExperiment(dumbbells[d], ..., twoSenders) of experiment i
DumbbellOf(expIdx) == <<0, 0, 1, 1, 2>>[expIdx + 1]
TwoSenders(expIdx) == <<FALSE, TRUE, FALSE, TRUE, TRUE>>[expIdx + 1]

(***************************************************************************)
(* Addresses: dumbbells[d].GetLeftIpv4Address(i) of the three dumbbells    *)
(* (prefixes 10.1, 10.2, 10.3; distinct networks, so distinct addresses),  *)
(* and the right-side leaves, which send the ACK flows.                    *)
(***************************************************************************)
GetLeftIpv4Address(d, i) == <<"left", d, i>>
GetRightIpv4Address(d, i) == <<"right", d, i>>

LeftAddresses == {GetLeftIpv4Address(d, i) : d \in 0..2, i \in 0..1}

(***************************************************************************)
(* vector<ExperimentData> experimentData(10): value-initialised.           *)
(***************************************************************************)
NumBuckets == 10
Buckets == 0..(NumBuckets - 1)

EmptyData == [throughputs |-> <<>>, flowTimes |-> <<>>,
              meanThroughput |-> Zero, stddevThroughput |-> Zero,
              meanFlowTime |-> Zero, stddevFlowTime |-> Zero]

(***************************************************************************)
(* Flow records: what GetFlowStats() and FindFlow() give for one flow.     *)
(***************************************************************************)
FlowRecord(src, rx, firstTx, lastTx, lastRx) ==
    [sourceAddress |-> src, rxBytes |-> rx, timeFirstTxPacket |-> firstTx,
     timeLastTxPacket |-> lastTx, timeLastRxPacket |-> lastRx]

NoFlow == [sourceAddress |-> <<"none", 0, 0>>, rxBytes |-> 0, timeFirstTxPacket |-> 0,
           timeLastTxPacket |-> 0, timeLastRxPacket |-> 0]

\* Sizes and durations of a flow: <<rxBytes, last tx - first tx, last rx - first tx>>.
\* The last packet is received after the first one is sent, so the divisor
\* of line 196 is positive.
\* An ACK-sized flow at the threshold, the smallest significant flow
\* (1 Mb/s, 8 s), and a 10 MB transfer received in one second (80 Mb/s).
FlowShapes == {<<1000000, 500000, 1000000>>,
               <<1000001, 8000000, 8000008>>,
               <<10000000, 500000, 1000000>>}

\* First-transmit times: before the first window, every window's first
\* and last instant, every window's end (the first instant of the gap),
\* the middle of a gap, and after the last window.
WindowEdgeTimes ==
    UNION {{expTimings[i].first, expTimings[i].second - 1, expTimings[i].second} :
              i \in 0..(NumExperiments - 1)}

ClassifyTimes == WindowEdgeTimes \cup {0, expTimings[0].second + 500000,
                                       expTimings[4].second + Second}

ClassifyFlows ==
    {FlowRecord(a, sh[1], t, t + sh[2], t + sh[3]) :
        a \in LeftAddresses \cup {GetRightIpv4Address(0, 0)},
        sh \in FlowShapes, t \in ClassifyTimes}

\* The flows of the report runs: they start with the windows of
\* experiments 1 and 3 (one sender), 2 and 5 (two senders), come from the
\* two left leaves of the first dumbbell or the second left leaf of the
\* third, and carry two sample values; one more flow is below the threshold.
ReportFlows ==
    {FlowRecord(a, sh[1], expTimings[e].first, expTimings[e].first + sh[2],
                expTimings[e].first + sh[3]) :
        e \in {0, 1, 2, 4},
        a \in {GetLeftIpv4Address(0, 0), GetLeftIpv4Address(0, 1),
               GetLeftIpv4Address(2, 1)},
        sh \in FlowShapes \ {<<1000000, 500000, 1000000>>}}
    \cup {FlowRecord(GetRightIpv4Address(0, 0), 1000000,
                     expTimings[0].first, expTimings[0].first + 500000,
                     expTimings[0].first + Second)}

(***************************************************************************)
(* ProcessFlowMonitorResults, lines 190-240: one iteration of the loop     *)
(* over the flow records.                                                  *)
(***************************************************************************)
\* line 194: if (it->second.rxBytes > 1000000)
RxThreshold == 1000000

Significant_ge(r) == r.rxBytes >= RxThreshold

Significant(r) == r.rxBytes > RxThreshold

\* lines 195-196: rxBytes * 8.0 / (lastRx - firstTx) [s] / 1e6
Throughput(r) == Rat(r.rxBytes * 8, r.timeLastRxPacket - r.timeFirstTxPacket)

\* line 197: lastTx - firstTx [s]
FlowTime(r) == Rat(r.timeLastTxPacket - r.timeFirstTxPacket, Second)

InWindow_closed(startTime, expIdx) ==
    /\ startTime >= expTimings[expIdx].first
    /\ startTime <= expTimings[expIdx].second

\* line 205: if (startTime >= expStart && startTime < expEnd)
InWindow(startTime, expIdx) ==
    /\ startTime >= expTimings[expIdx].first
    /\ startTime < expTimings[expIdx].second

NoExperiment == -1

\* lines 201-205, 236: the first expIdx whose window holds startTime (break)
FindExperiment(startTime) ==
    LET hits == {i \in 0..(NumExperiments - 1) : InWindow(startTime, i)}
    IN  IF hits = {} THEN NoExperiment
        ELSE CHOOSE i \in hits : \A j \in hits : i <= j

NoBucket == -1

TargetBucket_swapped(expIdx, src) ==
    IF expIdx <= 1 THEN
        IF expIdx = 0 \/ src = GetLeftIpv4Address(0, 1) THEN expIdx * 2
        ELSE IF expIdx = 1 /\ src = GetLeftIpv4Address(0, 0) THEN expIdx * 2 + 1
        ELSE NoBucket
    ELSE IF expIdx <= 3 THEN
        IF expIdx = 2 \/ src = GetLeftIpv4Address(1, 0) THEN expIdx * 2
        ELSE IF expIdx = 3 /\ src = GetLeftIpv4Address(1, 1) THEN expIdx * 2 + 1
        ELSE NoBucket
    ELSE IF expIdx = 4 THEN
        IF src = GetLeftIpv4Address(2, 0) THEN expIdx * 2
        ELSE IF src = GetLeftIpv4Address(2, 1) THEN expIdx * 2 + 1
        ELSE NoBucket
    ELSE NoBucket

TargetBucket_checked(expIdx, src) ==
    IF expIdx <= 1 THEN
        IF src = GetLeftIpv4Address(0, 0) THEN expIdx * 2
        ELSE IF src = GetLeftIpv4Address(0, 1) THEN expIdx * 2 + 1
        ELSE NoBucket
    ELSE IF expIdx <= 3 THEN
        IF src = GetLeftIpv4Address(1, 0) THEN expIdx * 2
        ELSE IF src = GetLeftIpv4Address(1, 1) THEN expIdx * 2 + 1
        ELSE NoBucket
    ELSE IF expIdx = 4 THEN
        IF src = GetLeftIpv4Address(2, 0) THEN expIdx * 2
        ELSE IF src = GetLeftIpv4Address(2, 1) THEN expIdx * 2 + 1
        ELSE NoBucket
    ELSE NoBucket

\* lines 206-235: the index into expData the samples are pushed to
TargetBucket(expIdx, src) ==
    IF expIdx <= 1 THEN
        IF expIdx = 0 \/ src = GetLeftIpv4Address(0, 0) THEN expIdx * 2
        ELSE IF expIdx = 1 /\ src = GetLeftIpv4Address(0, 1) THEN expIdx * 2 + 1
        ELSE NoBucket
    ELSE IF expIdx <= 3 THEN
        IF expIdx = 2 \/ src = GetLeftIpv4Address(1, 0) THEN expIdx * 2
        ELSE IF expIdx = 3 /\ src = GetLeftIpv4Address(1, 1) THEN expIdx * 2 + 1
        ELSE NoBucket
    ELSE IF expIdx = 4 THEN
        IF src = GetLeftIpv4Address(2, 0) THEN expIdx * 2
        ELSE IF src = GetLeftIpv4Address(2, 1) THEN expIdx * 2 + 1
        ELSE NoBucket
    ELSE NoBucket

PushSamples_tputOnly(data, b, tputMbps, fct) ==
    [data EXCEPT ![b].throughputs = Append(@, tputMbps)]

\* throughputs.push_back(tputMbps); flowTimes.push_back(fct)
PushSamples(data, b, tputMbps, fct) ==
    [data EXCEPT ![b].throughputs = Append(@, tputMbps),
                 ![b].flowTimes = Append(@, fct)]

\* lines 191-239: the body of the loop for one record
ProcessFlow(data, r) ==
    IF Significant(r) THEN
        LET expIdx == FindExperiment(r.timeFirstTxPacket) IN
        IF expIdx = NoExperiment THEN data
        ELSE LET b == TargetBucket(expIdx, r.sourceAddress) IN
             IF b = NoBucket THEN data
             ELSE PushSamples(data, b, Throughput(r), FlowTime(r))
    ELSE data

(***************************************************************************)
(* CalculateStats, lines 32-53.  The result's stddev field holds the       *)
(* radicand: the standard deviation is its square root.                    *)
(***************************************************************************)
\* 0.0 / 0: what the division of line 45 gives for an empty vector
NaN == <<0, 0>>

SquaredDeviations(values, mean) ==
    [i \in 1..Len(values) |->
        LET dev == RatSub(values[i], mean) IN RatMul(dev, dev)]

CalculateStats_noEmptyCheck(values) ==
    IF values = <<>> THEN [mean |-> NaN, stddev |-> NaN]
    ELSE LET mean == RatDivInt(RatSum(values), Len(values))
         IN  [mean |-> mean,
              stddev |-> RatDivInt(RatSum(SquaredDeviations(values, mean)),
                                   Len(values))]

CalculateStats(values) ==
    IF values = <<>> THEN [mean |-> Zero, stddev |-> Zero]
    ELSE LET mean == RatDivInt(RatSum(values), Len(values))
         IN  [mean |-> mean,
              stddev |-> RatDivInt(RatSum(SquaredDeviations(values, mean)),
                                   Len(values))]

ReduceData_first3(data) ==
    LET th == CalculateStats(SubSeq(data.throughputs, 1, Min(3, Len(data.throughputs))))
        ft == CalculateStats(SubSeq(data.flowTimes, 1, Min(3, Len(data.flowTimes))))
    IN  [data EXCEPT !.meanThroughput = th.mean, !.stddevThroughput = th.stddev,
                     !.meanFlowTime = ft.mean, !.stddevFlowTime = ft.stddev]

\* lines 244-245: the body of the loop over expData
ReduceData(data) ==
    LET th == CalculateStats(data.throughputs)
        ft == CalculateStats(data.flowTimes)
    IN  [data EXCEPT !.meanThroughput = th.mean, !.stddevThroughput = th.stddev,
                     !.meanFlowTime = ft.mean, !.stddevFlowTime = ft.stddev]

(***************************************************************************)
(* ostream << double: default floatfield, precision 6.  The values of the  *)
(* model are 0, nan, or lie in [0.0001, 1000000), where the notation is    *)
(* fixed: six significant digits, trailing zeros and a trailing point      *)
(* removed.                                                                *)
(***************************************************************************)
Precision == 6

RECURSIVE Pow10(_)
Pow10(k) == IF k = 0 THEN 1 ELSE 10 * Pow10(k - 1)

RECURSIVE NumDigits(_)
NumDigits(i) == IF i < 10 THEN 1 ELSE 1 + NumDigits(i \div 10)

RECURSIVE ZeroPad(_, _)
ZeroPad(f, width) ==
    IF width = 0 THEN "" ELSE ZeroPad(f \div 10, width - 1) \o ToString(f % 10)

\* scaled / 10^dec in fixed notation, trailing zeros removed
RECURSIVE Fixed(_, _)
Fixed(scaled, dec) ==
    IF dec = 0 THEN ToString(scaled)
    ELSE IF scaled % 10 = 0 THEN Fixed(scaled \div 10, dec - 1)
    ELSE ToString(scaled \div Pow10(dec)) \o "." \o ZeroPad(scaled % Pow10(dec), dec)

\* n/d * 10^k rounded to the nearest integer, by long division
RECURSIVE LongDiv(_, _, _, _)
LongDiv(quot, rem, d, k) ==
    IF k = 0 THEN (IF 2 * rem >= d THEN quot + 1 ELSE quot)
    ELSE LongDiv(quot * 10 + (rem * 10) \div d, (rem * 10) % d, d, k - 1)

RECURSIVE LeadingZeros(_, _)
LeadingZeros(n, d) == IF n * 10 >= d THEN 0 ELSE 1 + LeadingZeros(n * 10, d)

FormatDouble(v) ==
    IF v[2] = 0 THEN "nan"
    ELSE IF v[1] = 0 THEN "0"
    ELSE LET n == v[1]
             d == v[2]
             dec == IF n >= d THEN Precision - NumDigits(n \div d)
                    ELSE Precision + LeadingZeros(n, d)
         IN  Fixed(LongDiv(n \div d, n % d, d, dec), dec)

(***************************************************************************)
(* The digits of sqrt(p/q): the largest c with c^2 * q <= p * 10^(2 dec),  *)
(* found digit by digit; the products exceed the machine integers and are  *)
(* computed on little-endian sequences of base-10000 limbs.                *)
(***************************************************************************)
LimbBase == 10000

RECURSIVE BigOf(_)
BigOf(n) == IF n < LimbBase THEN <<n>> ELSE <<n % LimbBase>> \o BigOf(n \div LimbBase)

RECURSIVE BigCarry(_, _)
BigCarry(s, c) ==
    IF s = <<>> THEN (IF c = 0 THEN <<>> ELSE BigOf(c))
    ELSE <<(s[1] + c) % LimbBase>> \o BigCarry(Tail(s), (s[1] + c) \div LimbBase)

Limb(s, i) == IF i <= Len(s) THEN s[i] ELSE 0

BigAdd(a, b) ==
    BigCarry([i \in 1..(IF Len(a) > Len(b) THEN Len(a) ELSE Len(b)) |->
                 Limb(a, i) + Limb(b, i)], 0)

\* k < 200000
BigMulInt(s, k) == BigCarry([i \in 1..Len(s) |-> s[i] * k], 0)

RECURSIVE BigMul(_, _)
BigMul(a, b) ==
    IF a = <<>> THEN <<>>
    ELSE BigAdd(BigMulInt(b, a[1]), <<0>> \o BigMul(Tail(a), b))

RECURSIVE BigMulPow10(_, _)
BigMulPow10(s, k) == IF k = 0 THEN s ELSE BigMulPow10(BigMulInt(s, 10), k - 1)

RECURSIVE BigLeFrom(_, _, _)
BigLeFrom(a, b, i) ==
    IF i = 0 THEN TRUE
    ELSE IF Limb(a, i) # Limb(b, i) THEN Limb(a, i) < Limb(b, i)
    ELSE BigLeFrom(a, b, i - 1)

BigLe(a, b) == BigLeFrom(a, b, IF Len(a) > Len(b) THEN Len(a) ELSE Len(b))

\* c / 10^dec <= sqrt(p / q) * m / 2, for m = 2 (floor) or m = 1 (rounding)
SqrtAtLeast(c, p, q, dec) ==
    BigLe(BigMulInt(BigMul(BigOf(c), BigOf(c)), q), BigMulPow10(BigOf(p), 2 * dec))

RECURSIVE SqrtFloor(_, _, _, _, _)
SqrtFloor(c, unit, p, q, dec) ==
    IF unit = 0 THEN c
    ELSE LET k == CHOOSE k \in 0..9 :
                     /\ SqrtAtLeast(c + k * unit, p, q, dec)
                     /\ k < 9 => ~SqrtAtLeast(c + (k + 1) * unit, p, q, dec)
         IN  SqrtFloor(c + k * unit, unit \div 10, p, q, dec)

\* sqrt(p/q) * 10^dec rounded to the nearest integer
SqrtScaled(p, q, dec) ==
    LET c == SqrtFloor(0, Pow10(Precision), p, q, dec)
    IN  IF SqrtAtLeast(2 * c + 1, 4 * p, q, dec) THEN c + 1 ELSE c

RECURSIVE SqrtIntDigits(_, _, _)
\* the number of digits of the integer part of sqrt(p/q) >= 1
SqrtIntDigits(p, q, k) ==
    IF p < Pow10(2 * k) * q THEN k ELSE SqrtIntDigits(p, q, k + 1)

RECURSIVE SqrtLeadingZeros(_, _)
\* the zeros between the point and the first digit of sqrt(p/q) < 1
SqrtLeadingZeros(p, q) ==
    IF p * 100 >= q THEN 0 ELSE 1 + SqrtLeadingZeros(p * 100, q)

\* ostream << sqrt(radicand)
FormatSqrt(radicand) ==
    IF radicand[2] = 0 THEN "nan"
    ELSE IF radicand[1] = 0 THEN "0"
    ELSE LET p == radicand[1]
             q == radicand[2]
             dec == IF p >= q THEN Precision - SqrtIntDigits(p, q, 1)
                    ELSE Precision + SqrtLeadingZeros(p, q)
         IN  Fixed(SqrtScaled(p, q, dec), dec)

(***************************************************************************)
(* WriteResultsCsv, lines 250-317.  A line of the file is the sequence of  *)
(* its commas and of the texts between them, in the order written; endl    *)
(* ends the line.                                                          *)
(***************************************************************************)
Header == <<"exp", ",", "r1_s1", ",", "r2_s1", ",", "r3_s1", ",", "avg_s1", ",",
            "std_s1", ",", "unit_s1", ",", "r1_s2", ",", "r2_s2", ",", "r3_s2", ",",
            "avg_s2", ",", "std_s2", ",", "unit_s2">>

\* the runs of one sender that the report has columns for
RunsPerSender == 3

RECURSIVE Columns(_)
Columns(values) ==
    IF values = <<>> THEN <<>>
    ELSE <<FormatDouble(values[1]), ",">> \o Columns(Tail(values))

SampleColumns_all(values) == Columns(values)

\* lines 265-267: for (i = 0; i < min(3, size); i++) csvFile << values[i] << ","
SampleColumns(values) ==
    Columns(SubSeq(values, 1, Min(RunsPerSender, Len(values))))

\* lines 273, 302: if (exp == 0 || exp == 2)
SingleFlow(exp) == exp = 0 \/ exp = 2

ThroughputRow_noComma(data, exp) ==
    LET first == data[exp * 2]
        second == data[exp * 2 + 1]
    IN  <<"th_" \o ToString(exp + 1), ",">>
        \o SampleColumns(first.throughputs)
        \o <<FormatDouble(first.meanThroughput), ",",
             FormatSqrt(first.stddevThroughput), ",", "Mbps">>
        \o (IF SingleFlow(exp) THEN <<>>
            ELSE <<",">> \o SampleColumns(second.throughputs)
                 \o <<FormatDouble(second.meanThroughput), ",",
                      FormatSqrt(second.stddevThroughput), ",", "Mbps">>)

\* lines 259-283: one row of the throughput table
ThroughputRow(data, exp) ==
    LET first == data[exp * 2]
        second == data[exp * 2 + 1]
    IN  <<"th_" \o ToString(exp + 1), ",">>
        \o SampleColumns(first.throughputs)
        \o <<FormatDouble(first.meanThroughput), ",",
             FormatSqrt(first.stddevThroughput), ",", "Mbps", ",">>
        \o (IF SingleFlow(exp) THEN <<>>
            ELSE SampleColumns(second.throughputs)
                 \o <<FormatDouble(second.meanThroughput), ",",
                      FormatSqrt(second.stddevThroughput), ",", "Mbps">>)

\* lines 288-313: one row of the flow completion time table
FlowTimeRow(data, exp) ==
    LET first == data[exp * 2]
        second == data[exp * 2 + 1]
    IN  <<"afct_" \o ToString(exp + 1), ",">>
        \o SampleColumns(first.flowTimes)
        \o <<FormatDouble(first.meanFlowTime), ",",
             FormatSqrt(first.stddevFlowTime), ",", "sec">>
        \o (IF SingleFlow(exp) THEN <<>>
            ELSE <<",">> \o SampleColumns(second.flowTimes)
                 \o <<FormatDouble(second.meanFlowTime), ",",
                      FormatSqrt(second.stddevFlowTime), ",", "sec">>)

\* lines 255-314: everything inserted into csvFile
CsvLines(data) ==
    <<Header>>
    \o [e \in 1..NumExperiments |-> ThroughputRow(data, e - 1)]
    \o [e \in 1..NumExperiments |-> FlowTimeRow(data, e - 1)]

(***************************************************************************)
(* The state machine: main from line 388 on.                               *)
(***************************************************************************)
Init ==
    /\ pc = "flows"
    /\ flow = NoFlow
    /\ nFlows = 0
    /\ expData = [b \in Buckets |-> EmptyData]
    /\ dataIdx = 0
    /\ csvFile = [is_open |-> FALSE, lines |-> <<>>]
    /\ cout = <<>>

\* lines 190-240: the loop passes to the next record of the flow monitor
NextFlow(flows, limit) ==
    /\ pc = "flows"
    /\ nFlows < limit
    /\ \E r \in flows :
          /\ flow' = r
          /\ expData' = ProcessFlow(expData, r)
    /\ nFlows' = nFlows + 1
    /\ UNCHANGED <<pc, dataIdx, csvFile, cout>>

\* line 190: it == stats.end()
EndOfFlows ==
    /\ pc = "flows"
    /\ pc' = "stats"
    /\ flow' = NoFlow
    /\ UNCHANGED <<nFlows, expData, dataIdx, csvFile, cout>>

\* lines 243-246: one iteration of for (auto &data : expData); after the
\* last one ProcessFlowMonitorResults returns
NextStats ==
    /\ pc = "stats"
    /\ dataIdx < NumBuckets
    /\ expData' = [expData EXCEPT ![dataIdx] = ReduceData(@)]
    /\ dataIdx' = dataIdx + 1
    /\ pc' = IF dataIdx + 1 = NumBuckets THEN "write" ELSE "stats"
    /\ UNCHANGED <<flow, nFlows, csvFile, cout>>

\* line 394: WriteResultsCsv returns void; when open() fails the stream
\* is in a failed state, every insertion is a no-op and nothing is thrown
WriteResultsCsv ==
    /\ pc = "write"
    /\ \E opened \in BOOLEAN :
          csvFile' = [is_open |-> opened,
                      lines |-> IF opened THEN CsvLines(expData) ELSE <<>>]
    /\ pc' = "report"
    /\ UNCHANGED <<flow, nFlows, expData, dataIdx, cout>>

\* line 399
ReportCompletion ==
    /\ pc = "report"
    /\ cout' = Append(cout, "Simulation completed. Results written to tcp_Sharan.csv")
    /\ pc' = "done"
    /\ UNCHANGED <<flow, nFlows, expData, dataIdx, csvFile>>

Next ==
    \/ NextFlow(ReportFlows, MaxFlows)
    \/ EndOfFlows
    \/ NextStats
    \/ WriteResultsCsv
    \/ ReportCompletion

Spec == Init /\ [][Next]_vars

NextClassify ==
    \/ NextFlow(ClassifyFlows, MaxClassifyFlows)
    \/ EndOfFlows
    \/ NextStats
    \/ WriteResultsCsv
    \/ ReportCompletion

SpecClassify == Init /\ [][NextClassify]_vars

(***************************************************************************)
(* Properties.                                                             *)
(***************************************************************************)
Experiments == 0..(NumExperiments - 1)

\* the step is one iteration of the loop over the flow records, for flow'
FlowStep == nFlows' = nFlows + 1

\* the step pushed the samples of flow' to bucket b and changed nothing else
AppendedTo(b) ==
    expData' = [expData EXCEPT
                  ![b].throughputs = Append(@, Throughput(flow')),
                  ![b].flowTimes = Append(@, FlowTime(flow'))]

Samples(data) == [b \in Buckets |-> <<data[b].throughputs, data[b].flowTimes>>]

\* the window of experiment i: 30 s long, 1 s after the one before, from 1 s
WindowStart(i) == (1 + 31 * i) * 1000000
WindowEnd(i) == WindowStart(i) + 30 * 1000000
StartsIn(r, i) ==
    WindowStart(i) <= r.timeFirstTxPacket /\ r.timeFirstTxPacket < WindowEnd(i)

\* the senders SetupExperiment installs for experiment i
FirstSender(i) == GetLeftIpv4Address(DumbbellOf(i), 0)
SecondSender(i) == GetLeftIpv4Address(DumbbellOf(i), 1)

\* C1: in a two-sender window (experiments 1, 3, 4) a record above the
\* threshold that starts in the window is appended to slot 0 when its sender
\* is the first expected sender, to slot 1 when it is the second, and to no
\* bucket when it is neither.
C1_TwoSenderSlots ==
    [][\A i \in {1, 3, 4} :
          (FlowStep /\ flow'.rxBytes > 1000000 /\ StartsIn(flow', i)) =>
              IF flow'.sourceAddress = FirstSender(i) THEN AppendedTo(2 * i)
              ELSE IF flow'.sourceAddress = SecondSender(i) THEN AppendedTo(2 * i + 1)
              ELSE expData' = expData]_vars

C1_Witness ==
    /\ pc = "flows" /\ nFlows = 2
    /\ flow.rxBytes > 1000000 /\ StartsIn(flow, 3)
    /\ flow.sourceAddress = SecondSender(3)
    /\ expData[7].throughputs = <<Throughput(flow)>>
    /\ expData[6].throughputs = <<>>

\* C2: in a one-sender window (experiments 0, 2) a record above the
\* threshold that starts in the window is appended to slot 0 whatever its
\* sender; the slot-1 bucket of a one-sender experiment never holds a sample.
C2_OneSenderSlot ==
    /\ [](\A i \in {0, 2} : /\ expData[2 * i + 1].throughputs = <<>>
                            /\ expData[2 * i + 1].flowTimes = <<>>)
    /\ [][\A i \in {0, 2} :
             (FlowStep /\ flow'.rxBytes > 1000000 /\ StartsIn(flow', i)) =>
                 AppendedTo(2 * i)]_vars

C2_Witness ==
    /\ pc = "flows" /\ nFlows = 1
    /\ flow.rxBytes > 1000000 /\ StartsIn(flow, 2)
    /\ flow.sourceAddress \notin {FirstSender(2), SecondSender(2)}
    /\ expData[4].throughputs = <<Throughput(flow)>>

\* C3: a record with at most 1,000,000 received bytes changes no bucket,
\* whatever its time and sender; one with 1,000,001 bytes passes the filter
\* (in a one-sender window it is appended).
C3_ThresholdDiscard ==
    [][FlowStep =>
          /\ flow'.rxBytes <= 1000000 => Samples(expData') = Samples(expData)
          /\ (flow'.rxBytes = 1000001 /\ StartsIn(flow', 0)) => AppendedTo(0)]_vars

C3_Witness ==
    /\ pc = "flows" /\ nFlows = 1
    /\ flow.rxBytes = 1000000 /\ StartsIn(flow, 1)
    /\ flow.sourceAddress = FirstSender(1)
    /\ \A b \in Buckets : expData[b].throughputs = <<>>

\* C4: a record is attributed to experiment i only if its first-transmit
\* time t has start(i) <= t < end(i); a record that starts in no window
\* changes no bucket.
C4_HalfOpenWindow ==
    [][FlowStep =>
          /\ \A b \in Buckets :
                Samples(expData')[b] # Samples(expData)[b] => StartsIn(flow', b \div 2)
          /\ (\A i \in Experiments : ~StartsIn(flow', i)) =>
                Samples(expData') = Samples(expData)]_vars

C4_Witness ==
    /\ pc = "flows" /\ nFlows = 1
    /\ flow.rxBytes > 1000000
    /\ flow.timeFirstTxPacket = WindowEnd(0)
    /\ flow.sourceAddress = FirstSender(0)
    /\ \A b \in Buckets : expData[b].throughputs = <<>>

RECURSIVE SumLen(_, _)
SumLen(data, b) ==
    IF b < 0 THEN 0 ELSE Len(data[b].throughputs) + SumLen(data, b - 1)

TotalSamples(data) == SumLen(data, NumBuckets - 1)

\* C5: one record appends one throughput and one flow-time sample to
\* exactly one bucket, or nothing; the samples never outnumber the records
\* processed and the two sequences of a bucket have the same length.
C5_AtMostOneBucket ==
    /\ [](/\ TotalSamples(expData) <= nFlows
          /\ \A b \in Buckets :
                Len(expData[b].throughputs) = Len(expData[b].flowTimes))
    /\ [][FlowStep => \/ Samples(expData') = Samples(expData)
                      \/ \E b \in Buckets : AppendedTo(b)]_vars

C5_Witness ==
    /\ pc = "flows" /\ nFlows = 2
    /\ TotalSamples(expData) = 1
    /\ Len(expData[9].flowTimes) = 1

(***************************************************************************)
(* Properties of the report.  Line 1 of the file is the header, line 1 + e *)
(* the throughput row and line 6 + e the flow completion time row of       *)
(* experiment number e (e = 1..5).                                         *)
(***************************************************************************)
Written == csvFile.is_open /\ pc \in {"report", "done"}

ThroughputLine(exp) == csvFile.lines[2 + exp]
FlowTimeLine(exp) == csvFile.lines[2 + NumExperiments + exp]

IsText(token) == token # ","

\* the texts of a line without the commas
Fields(line) == SelectSeq(line, IsText)

RECURSIVE LineText(_)
\* the characters of a line
LineText(line) == IF line = <<>> THEN "" ELSE line[1] \o LineText(Tail(line))

Last(line) == line[Len(line)]

Shown(values) == Min(3, Len(values))

Eighty == <<80, 1>>

SlotFields(line, from, values, unit) ==
    /\ Len(Fields(line)) >= from + Shown(values) + 2
    /\ \A i \in 1..Shown(values) :
          Fields(line)[from + i - 1] = FormatDouble(values[i])
    /\ Fields(line)[from + Shown(values) + 2] = unit

\* C7: a row holds min(3, n) sample columns for a bucket of n samples: the
\* first min(3, n) samples in the order they were appended, without padding,
\* directly followed by mean, stddev and unit.
C7_SampleColumns ==
    Written =>
        \A exp \in Experiments :
            LET first == expData[2 * exp]
                second == expData[2 * exp + 1]
            IN  /\ SlotFields(ThroughputLine(exp), 2, first.throughputs, "Mbps")
                /\ SlotFields(FlowTimeLine(exp), 2, first.flowTimes, "sec")
                /\ IF exp \in {0, 2}
                   THEN /\ Len(Fields(ThroughputLine(exp)))
                              = 4 + Shown(first.throughputs)
                        /\ Len(Fields(FlowTimeLine(exp)))
                              = 4 + Shown(first.flowTimes)
                   ELSE /\ SlotFields(ThroughputLine(exp),
                                      5 + Shown(first.throughputs),
                                      second.throughputs, "Mbps")
                        /\ SlotFields(FlowTimeLine(exp),
                                      5 + Shown(first.flowTimes),
                                      second.flowTimes, "sec")
                        /\ Len(Fields(ThroughputLine(exp)))
                              = 7 + Shown(first.throughputs)
                                  + Shown(second.throughputs)
                        /\ Len(Fields(FlowTimeLine(exp)))
                              = 7 + Shown(first.flowTimes) + Shown(second.flowTimes)

C7_Witness ==
    /\ Written
    /\ Len(expData[3].throughputs) = 4
    /\ expData[3].throughputs[1] # expData[3].throughputs[2]
    /\ expData[3].throughputs[3] # expData[3].throughputs[4]
    /\ Fields(ThroughputLine(1))[5] = FormatDouble(expData[3].throughputs[1])
    /\ Fields(ThroughputLine(1))[6] = FormatDouble(expData[3].throughputs[2])

StatsOf(data) == <<data.meanThroughput, data.stddevThroughput,
                   data.meanFlowTime, data.stddevFlowTime>>

\* C8: statistics are computed only after the last flow record, by one pass
\* that takes each of the 10 buckets exactly once; the pass leaves the
\* samples alone, and stores mean and stddev over all samples of the bucket.
C8_ReduceAfterClassify ==
    /\ [](/\ pc = "flows" => dataIdx = 0
          /\ pc \in {"write", "report", "done"} => dataIdx = NumBuckets)
    /\ [][/\ dataIdx' # dataIdx =>
                /\ pc = "stats" /\ dataIdx' = dataIdx + 1
                /\ StatsOf(expData'[dataIdx])
                     = <<CalculateStats(expData[dataIdx].throughputs).mean,
                         CalculateStats(expData[dataIdx].throughputs).stddev,
                         CalculateStats(expData[dataIdx].flowTimes).mean,
                         CalculateStats(expData[dataIdx].flowTimes).stddev>>
          /\ \A b \in Buckets :
                /\ StatsOf(expData'[b]) # StatsOf(expData[b]) =>
                      dataIdx = b /\ dataIdx' = b + 1
                /\ Samples(expData')[b] # Samples(expData)[b] =>
                      pc = "flows" /\ dataIdx = 0]_vars

C8_Witness ==
    /\ pc = "write" /\ dataIdx = NumBuckets
    /\ Len(expData[0].throughputs) = 4
    /\ expData[0].meanThroughput = CalculateStats(expData[0].throughputs).mean
    /\ expData[0].meanThroughput
          # CalculateStats(SubSeq(expData[0].throughputs, 1, 3)).mean

\* C9: an empty bucket is reduced to mean 0 and stddev 0, and the report
\* still holds its row: no sample column, then 0, 0 and the unit; the 5
\* throughput rows and the 5 flow completion time rows are always written.
C9_EmptyBucket ==
    /\ \A b \in Buckets :
          (dataIdx > b /\ expData[b].throughputs = <<>>) =>
              StatsOf(expData[b]) = <<Zero, Zero, Zero, Zero>>
    /\ Written =>
          /\ Len(csvFile.lines) = 1 + 2 * NumExperiments
          /\ \A exp \in Experiments :
                /\ ThroughputLine(exp)[1] = "th_" \o ToString(exp + 1)
                /\ FlowTimeLine(exp)[1] = "afct_" \o ToString(exp + 1)
                /\ expData[2 * exp].throughputs = <<>> =>
                      /\ SubSeq(ThroughputLine(exp), 1, 7)
                            = <<"th_" \o ToString(exp + 1), ",", "0", ",", "0", ",", "Mbps">>
                      /\ SubSeq(FlowTimeLine(exp), 1, 7)
                            = <<"afct_" \o ToString(exp + 1), ",", "0", ",", "0", ",", "sec">>
                /\ (exp \notin {0, 2} /\ expData[2 * exp + 1].throughputs = <<>>) =>
                      /\ SubSeq(Fields(ThroughputLine(exp)),
                                Len(Fields(ThroughputLine(exp))) - 2,
                                Len(Fields(ThroughputLine(exp))))
                            = <<"0", "0", "Mbps">>
                      /\ Len(Fields(ThroughputLine(exp)))
                            = 7 + Shown(expData[2 * exp].throughputs)
                      /\ SubSeq(Fields(FlowTimeLine(exp)),
                                Len(Fields(FlowTimeLine(exp))) - 2,
                                Len(Fields(FlowTimeLine(exp))))
                            = <<"0", "0", "sec">>
                      /\ Len(Fields(FlowTimeLine(exp)))
                            = 7 + Shown(expData[2 * exp].flowTimes)

C9_Witness ==
    /\ Written /\ nFlows > 0
    /\ expData[2].throughputs # <<>>
    /\ expData[3].throughputs = <<>>
    /\ expData[0].throughputs = <<>>
    /\ LineText(FlowTimeLine(0)) = "afct_1,0,0,sec"

\* C10: when the report file cannot be opened, WriteResultsCsv fails and
\* main does not go on to report that the results were written.
C10_FailurePropagated ==
    (pc = "done" /\ ~csvFile.is_open) => cout = <<>>
====
